---- MODULE Spec2Model ----
(***************************************************************************)
(* Model of the archivebot worker: ArchiveBot::run_forever / run_one /     *)
(* run_video (src/src/archiver.rs) composed with the YTDL downloader       *)
(* (src/src/util/ytdl.rs) or with any other VideoDownloader.               *)
(*                                                                         *)
(* One action is one step of the worker between two await points: the     *)
(* action named after a collaborator call is the completion of that call   *)
(* together with everything the code does up to the next await.  The two   *)
(* yt-dlp subprocesses are operating-system processes: they exit on their  *)
(* own (ExitVideo, ExitLiveChat), the worker only observes them.           *)
(***************************************************************************)
EXTENDS Integers, Sequences, FiniteSets, TLC

\* ---------------------------------------------------------------- bounds
\* Number of iterations of the run_forever loop that are explored.
MaxIter == 7
\* Number of state events published to the metrics endpoint.
MaxEvents == 3
\* Number of metrics requests served at the same time.
MaxRequests == 2
\* Number of times the process is started on the same cache directory.
MaxBoots == 2

\* ------------------------------------------------------------- constants
\* Duration::from_secs(30)
BaseDelay == 30
\* Duration::from_secs(5 * 60)
MaxDelay == 300

\* Payloads the queue can hand out.
VideoIds == {"abc123", "dQw4w9WgXcQ"}
\* Exit codes of a subprocess (0 is success).
ExitCodes == {0, 1, 2}
\* What a subprocess may have written to stderr.
Stderrs == {"", "ERROR: unavailable"}
\* The five values of enum ArchiverState.
ArchiverState == {"Idle", "Starting", "FailureBackoff", "Downloading", "Uploading"}

VARIABLES
    pc,               \* the await point the worker is suspended at
    iter,             \* number of run_one calls started by run_forever
    backoff_delay,    \* run_forever's local, in seconds
    deadlinePassed,   \* chrono::Utc::now() > next_exit
    skip_requeue,     \* ArchiveBot.skip_requeue
    video_downloader, \* which VideoDownloader the bot was built with
    subscriber,       \* ArchiveBot.events: "none", or a sender whose receiver
                      \* is "live" or "closed" (dropped)
    task,             \* <<video_id>> of the dequeued task, <<>> if none
    destination,      \* the TempDir handle run_video holds (0: none)
    tempdirs,         \* working directories that exist on disk
    video,            \* the primary yt-dlp subprocess
    live_chat,        \* the secondary yt-dlp subprocess
    rclone,           \* the rclone subprocess of Rclone::upload
    dl_res,           \* what download() returned in this run
    videoErr,         \* <<e>> when run_video returned Err(e) in this run
    insertRes,        \* <<r>> when the requeue insert returned r
    archivedRes,      \* <<r>> when is_archived() returned r in this run
    result,           \* what run_one returned in this run
    events,           \* state events sent in this iteration, in order
    calls,            \* collaborator calls issued in this run, in order
    sleepLog,         \* per finished run_one: 0 for Ok, else the delay slept
    cancelledAt,      \* the await point run_forever was dropped at, "" if none
    \* serve_metrics_endpoint (src/src/util/metrics.rs)
    chan,             \* the unbounded channel: events sent and not yet received
    published,        \* number of events sent on the channel
    state,            \* the value inside Arc<RwLock<ArchiverState>>
    lpc,              \* rx_listener: "recv" (in rx.recv) or "write" (in state.write)
    new_state,        \* <<s>>: the event rx_listener received and has not applied
    applied,          \* number of events rx_listener has written to state
    reqs,             \* state metrics of the requests in generate_metrics, each
                      \* holding a read guard
    snapshot,         \* state metrics of the last response, <<>> if none
    \* run() up to select! (src/src/lib.rs) and the two self-installing clients
    boot,             \* run(): "modules" (in tokio::join!), "running" (in
                      \* select!), "failed" (returned Err: the process exited),
                      \* "bye" (returned Ok) or "panicked" (unreachable!())
    boots,            \* number of times the process was started
    arch,             \* built_info::CFG_TARGET_ARCH
    files,            \* the cache directory: what each file holds
    runErr,           \* <<e>> when run() returned Err(e)
    ypc,              \* YTDL::new: "new", "install" or "done"
    yinst,            \* <<b>>: what is_installed() answered in YTDL::new
    yres,             \* what YTDL::new returned
    rpc,              \* Rclone::new: "new", "install" or "done"
    rinst,            \* <<b>>: what is_installed() answered in Rclone::new
    rres              \* what Rclone::new returned

vars == <<pc, iter, backoff_delay, deadlinePassed, skip_requeue,
          video_downloader, subscriber, task, destination, tempdirs, video,
          live_chat, rclone, dl_res, videoErr, insertRes, archivedRes, result,
          events, calls, sleepLog, cancelledAt, chan, published, state, lpc,
          new_state, applied, reqs, snapshot, boot, boots, arch, files,
          runErr, ypc, yinst, yres, rpc, rinst, rres>>

procs == <<video, live_chat, rclone>>
config == <<skip_requeue, video_downloader, subscriber>>
replies == <<insertRes, archivedRes>>
sink == <<chan, published, state, lpc, new_state, applied, reqs, snapshot>>
\* run() before select!, YTDL::new and Rclone::new
installer == <<boot, boots, arch, files, runErr, ypc, yinst, yres, rpc, rinst,
               rres>>
\* what run() leaves alone once it is in select!
constructed == <<boots, arch, files, runErr, ypc, yinst, yres, rpc, rinst, rres>>
\* what no step of run_forever touches
outside == <<cancelledAt, sink, installer>>
\* the state of run_forever and of what it calls
bot == <<pc, iter, backoff_delay, deadlinePassed, config, task, destination,
         tempdirs, procs, dl_res, videoErr, replies, result, events, calls,
         sleepLog, cancelledAt>>
worker == <<bot, installer>>

\* ---------------------------------------------------------------- values
\* anyhow::Error: the root message, the contexts added on the way up
\* (outermost first), and what the message text carries of the subprocess.
Error(msg) == [msg |-> msg, ctx |-> <<>>, code |-> <<>>, stderr |-> <<>>]

\* anyhow::Context::context
Context(e, c) == [e EXCEPT !.ctx = <<c>> \o @]

Ok == <<"Ok">>
Err(e) == <<"Err", e>>
IsOk(r) == Len(r) > 0 /\ r[1] = "Ok"
IsErr(r) == Len(r) > 0 /\ r[1] = "Err"

\* std::process::Output of a finished subprocess
Output(c, s) == [code |-> c, stderr |-> s]
\* util::VideoDownloadResult
VideoDownloadResult(out) == <<"Ok", out>>

NoProc == [st |-> "none", code |-> <<>>, stderr |-> <<>>]
Running == [st |-> "running", code |-> <<>>, stderr |-> <<>>]
SpawnFailed == [st |-> "spawn_failed", code |-> <<>>, stderr |-> <<>>]
Exited(c, s) == [st |-> "exited", code |-> <<c>>, stderr |-> <<s>>]
KillOnDrop_detaches(p) == p

\* Command::kill_on_drop(true): dropping the future kills a running child
KillOnDrop(p) == IF p.st = "running" THEN [p EXCEPT !.st = "killed"] ELSE p

Call(op, id, dir) == [op |-> op, id |-> id, dir |-> dir]
CallsOf(op) == {i \in 1..Len(calls) : calls[i].op = op}

\* ------------------------------------------------------------ send_event
SendEvent_dropsIdle(evs, ev) == IF ev = "Idle" THEN evs ELSE Append(evs, ev)

SendEvent_dropsBackoff(evs, ev) ==
    IF ev = "FailureBackoff" THEN evs ELSE Append(evs, ev)

\* ArchiveBot::send_event: nothing is sent without a sender, and a send to a
\* dropped receiver returns Err, which `let _ =` discards
SendEvent(evs, ev) == IF subscriber = "live" THEN Append(evs, ev) ELSE evs

CanSend_needsReceiver(sub) == sub = "live"

\* UnboundedSender::send is synchronous and never waits, whatever the
\* receiver does; send_event always returns to its caller
CanSend(sub) == TRUE

\* ----------------------------------------------------------- run_forever
NextDelay_wraps(d) == IF 2 * d > MaxDelay THEN BaseDelay ELSE 2 * d

NextDelay_uncapped(d) == 2 * d

\* backoff_delay *= 2; if backoff_delay > 5 min { backoff_delay = 5 min }
NextDelay(d) == IF 2 * d > MaxDelay THEN MaxDelay ELSE 2 * d

AfterIteration_ignoresDeadline == "loop"

AfterIteration_alwaysReturns == "returned"

\* "Check if we need to restart": return when the deadline has passed
AfterIteration == IF deadlinePassed THEN "returned" ELSE "loop"

\* run_forever, Ok(_) arm: reset the delay, no event, no sleep
RunOneOk ==
    /\ result' = Ok
    /\ backoff_delay' = BaseDelay
    /\ sleepLog' = Append(sleepLog, 0)
    /\ pc' = AfterIteration

RunOneErr_noBackoff(e) ==
    /\ result' = Err(e)
    /\ sleepLog' = Append(sleepLog, 0)
    /\ pc' = AfterIteration
    /\ UNCHANGED <<events, backoff_delay>>

\* run_forever, Err(e) arm up to the sleep: emit FailureBackoff, start sleeping
RunOneErr(e) ==
    /\ CanSend(subscriber)
    /\ result' = Err(e)
    /\ events' = SendEvent(events, "FailureBackoff")
    /\ sleepLog' = Append(sleepLog, backoff_delay)
    /\ pc' = "sleep"
    /\ UNCHANGED backoff_delay

\* ------------------------------------------------------- run_one, requeue
Requeues_inverted(skip) == skip = ""

\* if !self.skip_requeue.is_empty()
Requeues(skip) == skip # ""

DropTempDir_leaks(dirs, d) == dirs

\* Drop of tempfile::TempDir: the directory is removed
DropTempDir(dirs, d) == dirs \ {d}

\* run_video returned Err(e): its locals are dropped, run_one requeues or returns
RunVideoErr(e) ==
    /\ tempdirs' = DropTempDir(tempdirs, destination)
    /\ destination' = 0
    /\ videoErr' = <<e>>
    /\ IF Requeues(skip_requeue)
         THEN /\ calls' = Append(calls, Call("insert", task[1], 0))
              /\ pc' = "requeue"
              /\ UNCHANGED <<events, result, sleepLog, backoff_delay>>
         ELSE /\ UNCHANGED calls
              /\ RunOneErr(e)

RunOneReturn_masks(e, ins) == IF ins = "err" THEN Error("Tasq error") ELSE e

\* run_one, Err(e) arm: `let _ = insert(..).await; return Err(e);`
RunOneReturn(e, ins) == e

\* ------------------------------------------------------------- run_video
AlreadyArchived_never(r) == FALSE

AlreadyArchived_inverted(r) == r = "false"

\* if self.archive_site.is_archived(video_id).await? { return Ok(()) }
AlreadyArchived(r) == r = "true"

\* anyhow!("Could not download video: downloader exited with code {}, stderr: {}")
StatusError(out) ==
    [Error("Could not download video: downloader exited with code")
        EXCEPT !.code = <<out.code>>, !.stderr = <<out.stderr>>]

DownloadReturns_ignoresStatus(res) ==
    /\ dl_res' = res
    /\ IF IsErr(res)
         THEN RunVideoErr(Context(res[2], "Could not download video"))
         ELSE /\ calls' = Append(calls, Call("extract", "", destination))
              /\ pc' = "extract"
              /\ UNCHANGED <<tempdirs, destination, videoErr, events, result,
                             sleepLog, backoff_delay>>

DownloadReturns_dropsDir(res) ==
    /\ dl_res' = res
    /\ IF IsErr(res)
         THEN RunVideoErr(Context(res[2], "Could not download video"))
         ELSE IF res[2].code # 0
           THEN RunVideoErr(StatusError(res[2]))
           ELSE /\ calls' = Append(calls, Call("extract", "", destination))
                /\ pc' = "extract"
                /\ tempdirs' = DropTempDir(tempdirs, destination)
                /\ UNCHANGED <<destination, videoErr, events, result,
                               sleepLog, backoff_delay>>

\* run_video from the return of download() to the next await
DownloadReturns(res) ==
    /\ dl_res' = res
    /\ IF IsErr(res)
         THEN RunVideoErr(Context(res[2], "Could not download video"))
         ELSE IF res[2].code # 0
           THEN RunVideoErr(StatusError(res[2]))
           ELSE /\ calls' = Append(calls, Call("extract", "", destination))
                /\ pc' = "extract"
                /\ UNCHANGED <<tempdirs, destination, videoErr, events, result,
                               sleepLog, backoff_delay>>

\* -------------------------------------------------------- YTDL::download
\* anyhow!("yt-dlp exited with non-zero status: {}", video.status)
YtdlpExitError(v) == [Error("yt-dlp exited with non-zero status") EXCEPT !.code = v.code]

\* tokio::try_join!(..).context("Failed to spawn command")
SpawnError == Context(Error("io error"), "Failed to spawn command")

DownloadResult_chatFails(v, lc) ==
    IF v.code[1] # 0 \/ lc.code[1] # 0
      THEN Err(YtdlpExitError(v))
      ELSE VideoDownloadResult(Output(v.code[1], v.stderr[1]))

\* YTDL::download after both subprocesses were waited for
DownloadResult(v, lc) ==
    IF v.code[1] # 0
      THEN Err(YtdlpExitError(v))
      ELSE VideoDownloadResult(Output(v.code[1], v.stderr[1]))

BothFinished_videoOnly(v, lc) == v.st = "exited"

\* tokio::try_join! is ready with Ok only when both futures are: both
\* subprocesses were waited for
BothFinished(v, lc) == v.st = "exited" /\ lc.st = "exited"

\* -------------------------------------------------------- Rclone::upload
\* anyhow!("Rclone exited with status {}", output.status)
RcloneExitError(p) == [Error("Rclone exited with status") EXCEPT !.code = p.code]

\* Command without kill_on_drop: dropping the future leaves the child running
Detach(p) == p

\* ------------------------------------------------ serve_metrics_endpoint
ARCHIVER_STATES_short == <<"Idle", "Starting", "Downloading", "Uploading">>

\* pub static ARCHIVER_STATES
ARCHIVER_STATES ==
    <<"Idle", "Starting", "FailureBackoff", "Downloading", "Uploading">>

InitialState_starting == "Starting"

\* Arc::new(RwLock::new(ArchiverState::Idle))
InitialState == "Idle"

\* generate_metrics: one archivebot_state line per entry of ARCHIVER_STATES,
\* with value 1 if the entry equals the locked state and 0 otherwise
StateMetrics(st) ==
    [i \in 1..Len(ARCHIVER_STATES) |->
        <<ARCHIVER_STATES[i], IF st = ARCHIVER_STATES[i] THEN 1 ELSE 0>>]

\* ------------------------------------------- YTDL::new and Rclone::new
\* The files of the cache directory the two clients read and write.
YtdlBinaries == <<"yt-dlp", "ffmpeg", "yt-dlp-get-pot.zip", "deno">>
CacheFiles == {"yt-dlp", "ffmpeg", "yt-dlp-get-pot.zip", "deno", "rclone",
               "rclone.conf"}
\* What a file holds: nothing ("absent": no such file), "empty" (created or
\* truncated, nothing written), "data" (bytes the kernel cannot execute: an
\* archive, an error page) or an executable of some release.
Executables == {"v1", "v2"}
\* built_info::CFG_TARGET_ARCH
Archs == {"x86_64", "aarch64", "riscv64"}

\* Path::exists
Exists(f) == f # "absent"
\* Command::new(path).arg("--version").output().await.is_ok(): the file
\* could be spawned (its exit status is not looked at)
Executes(f) == f \in Executables

\* YTDL::is_installed
YtdlIsInstalled(fs) ==
    /\ Executes(fs["yt-dlp"])
    /\ Executes(fs["ffmpeg"])
    /\ Exists(fs["yt-dlp-get-pot.zip"])

\* Rclone::is_installed
RcloneIsInstalled(fs) == Executes(fs["rclone"])

NeedsInstall_always(installed) == TRUE

\* if !self.is_installed().await { self.install().await ... }
NeedsInstall(installed) == ~installed

\* match CFG_TARGET_ARCH { "x86_64" => .., "aarch64" => .., _ => bail!(..) }
SupportedArch(a) == a \in {"x86_64", "aarch64"}

\* What one install_binary call meets: "neterr" (reqwest::get or File::create
\* fails: the file is not touched), "ioerr" (the file was created, a chunk or
\* a write fails), or the body of the response, which is written whatever
\* the HTTP status was.
InstallOutcomes(b) ==
    {"neterr", "ioerr", "data"} \cup
        (IF b \in {"yt-dlp", "ffmpeg"} THEN {"v2"} ELSE {})

\* YTDL::install_binary: the file after the call, and whether it returned Ok
InstallBinary(old, out) ==
    CASE out = "neterr" -> old
      [] out = "ioerr" -> "empty"
      [] OTHER -> out
InstallBinaryOk(out) == out \notin {"neterr", "ioerr"}

\* the context YTDL::install adds to the error of each install_binary
InstallContext ==
    <<"Could not install yt-dlp", "Could not install ffmpeg",
      "Could not install yt-dlp-get-pot", "Could not install deno runtime">>

\* YTDL::install after join!: the first failure in the order of the `?`s
YtdlInstallResult(outs) ==
    LET failed == {i \in 1..Len(YtdlBinaries) : ~InstallBinaryOk(outs[YtdlBinaries[i]])}
    IN  IF failed = {}
          THEN Ok
          ELSE LET i == CHOOSE j \in failed : \A k \in failed : j <= k
               IN  Err(Context(Error("io error"), InstallContext[i]))

\* What Rclone::install meets after it created the destination file.
RcloneOutcomes == {"release_err", "no_asset", "fetch_err", "zip_err", "v2"}

\* Rclone::install from get_latest_release on: the error it returns, if any
RcloneInstallResult(a, out) ==
    CASE out = "release_err" ->
            Err(Context(Error("http error"),
                        "Could not get latest release info from GitHub"))
      [] ~SupportedArch(a) -> Err(Error("Unsupported architecture"))
      [] out = "no_asset" -> Err(Error("Could not find download URL"))
      [] out = "fetch_err" -> Err(Context(Error("http error"), "Could not fetch zip file"))
      [] out = "zip_err" ->
            Err(Context(Error("zip error"), "Could not open zip file for reading"))
      [] OTHER -> Ok

\* anyhow::Context::context on a Result
WithContext(r, c) == IF IsErr(r) THEN Err(Context(r[2], c)) ELSE r

\* run(): the `?`s after tokio::join!, YTDL before Rclone
ModulesResult(y, r) ==
    IF IsErr(y) THEN WithContext(y, "Could not create YTDL client")
    ELSE WithContext(r, "Could not create Rclone client")

\* A cache directory in which everything is installed.
InstalledCache ==
    [f \in CacheFiles |->
        CASE f \in {"yt-dlp", "ffmpeg", "rclone"} -> "v1"
          [] OTHER -> "data"]
\* The cache directories a process may find when it starts.
InitialCaches ==
    { [f \in CacheFiles |-> "absent"],
      InstalledCache,
      [InstalledCache EXCEPT !["ffmpeg"] = "absent"],
      [InstalledCache EXCEPT !["rclone"] = "empty", !["deno"] = "absent"] }

\* ------------------------------------------------------------------ Init
\* The bot and the metrics endpoint as ArchiveBot::new and
\* serve_metrics_endpoint leave them.
BotInit ==
    /\ pc = "loop"
    /\ iter = 0
    /\ backoff_delay = BaseDelay
    /\ deadlinePassed \in BOOLEAN
    /\ skip_requeue \in {"", "1"}
    /\ video_downloader \in {"YTDL", "Other"}
    /\ subscriber \in {"live", "none", "closed"}
    /\ task = <<>>
    /\ destination = 0
    /\ tempdirs = {}
    /\ video = NoProc
    /\ live_chat = NoProc
    /\ rclone = NoProc
    /\ dl_res = <<>>
    /\ videoErr = <<>>
    /\ insertRes = <<>>
    /\ archivedRes = <<>>
    /\ result = <<>>
    /\ events = <<>>
    /\ calls = <<>>
    /\ sleepLog = <<>>
    /\ cancelledAt = ""
    /\ chan = <<>>
    /\ published = 0
    /\ state = InitialState
    /\ lpc = "recv"
    /\ new_state = <<>>
    /\ applied = 0
    /\ reqs = <<>>
    /\ snapshot = <<>>

\* run() has reached select!: both clients were constructed
Init ==
    /\ BotInit
    /\ boot = "running"
    /\ boots = 1
    /\ arch = "x86_64"
    /\ files = InstalledCache
    /\ runErr = <<>>
    /\ ypc = "done"
    /\ yinst = <<TRUE>>
    /\ yres = Ok
    /\ rpc = "done"
    /\ rinst = <<TRUE>>
    /\ rres = Ok

\* --------------------------------------------------------------- actions
\* The clock passes next_exit.
Tick ==
    /\ ~deadlinePassed
    /\ pc \notin {"returned", "cancelled"}
    /\ deadlinePassed' = TRUE
    /\ UNCHANGED <<outside, pc, iter, backoff_delay, config, task,
                   destination, tempdirs,
                   procs, dl_res, videoErr, replies, result, events, calls,
                   sleepLog>>

\* run_forever calls run_one: Starting is sent and consume() is awaited
GetNextTask ==
    /\ pc = "loop"
    /\ iter < MaxIter
    /\ CanSend(subscriber)
    /\ iter' = iter + 1
    /\ events' = SendEvent(<<>>, "Starting")
    /\ calls' = <<Call("consume", "", 0)>>
    /\ task' = <<>>
    /\ video' = NoProc
    /\ live_chat' = NoProc
    /\ rclone' = NoProc
    /\ dl_res' = <<>>
    /\ videoErr' = <<>>
    /\ insertRes' = <<>>
    /\ archivedRes' = <<>>
    /\ result' = <<>>
    /\ pc' = "consume"
    /\ UNCHANGED <<outside, backoff_delay, deadlinePassed, config, destination,
                   tempdirs, sleepLog>>

\* consume() returns: an error is propagated with context, a task goes to run_video
Consume(r) ==
    /\ pc = "consume"
    /\ IF r = "err"
         THEN /\ RunOneErr(Context(Error("Tasq error"),
                                   "Could not get next task from queue"))
              /\ UNCHANGED <<task, calls>>
         ELSE /\ task' = <<r>>
              /\ calls' = Append(calls, Call("is_archived", r, 0))
              /\ pc' = "is_archived"
              /\ UNCHANGED <<result, events, sleepLog, backoff_delay>>
    /\ UNCHANGED <<outside, iter, deadlinePassed, config, destination,
                   tempdirs, procs,
                   dl_res, videoErr, replies>>

\* is_archived() returns
IsArchived(r) ==
    /\ pc = "is_archived"
    /\ archivedRes' = <<r>>
    /\ IF r = "err"
         THEN RunVideoErr(Error("Could not send search request"))
         ELSE IF AlreadyArchived(r)
           THEN /\ RunOneOk
                /\ UNCHANGED <<tempdirs, destination, videoErr, events, calls>>
           ELSE /\ calls' = Append(calls, Call("tempdir", "", 0))
                /\ pc' = "tempdir"
                /\ UNCHANGED <<tempdirs, destination, videoErr, events, result,
                               sleepLog, backoff_delay>>
    /\ UNCHANGED <<outside, iter, deadlinePassed, config, task, procs,
                   dl_res, insertRes>>

\* util::tempdir() returns: on success Downloading is sent and download() starts
TempDir(ok) ==
    /\ pc = "tempdir"
    /\ IF ok
         THEN /\ CanSend(subscriber)
              /\ destination' = iter
              /\ tempdirs' = tempdirs \cup {iter}
              /\ events' = SendEvent(events, "Downloading")
              /\ calls' = Append(calls, Call("download", task[1], iter))
              /\ pc' = IF video_downloader = "YTDL" THEN "spawn_video" ELSE "download"
              /\ UNCHANGED <<videoErr, result, sleepLog, backoff_delay>>
         ELSE RunVideoErr(Context(Error("io error"),
                                  "Could not create temporary directory"))
    /\ UNCHANGED <<outside, iter, deadlinePassed, config, task, procs,
                   dl_res, replies>>

\* A VideoDownloader other than YTDL returns from download()
OtherDownload(res) ==
    /\ pc = "download"
    /\ DownloadReturns(res)
    /\ UNCHANGED <<outside, iter, deadlinePassed, config, task, procs, replies>>

\* YTDL::download_video: Command::output() spawns the primary subprocess
SpawnVideo(ok) ==
    /\ pc = "spawn_video"
    /\ IF ok
         THEN /\ video' = Running
              /\ pc' = "spawn_live_chat"
              /\ UNCHANGED <<dl_res, calls, tempdirs, destination, videoErr,
                             events, result, sleepLog, backoff_delay>>
         ELSE /\ video' = SpawnFailed
              /\ DownloadReturns(Err(SpawnError))
    /\ UNCHANGED <<outside, iter, deadlinePassed, config, task, live_chat,
                   rclone,
                   replies>>

\* YTDL::download_live_chat: Command::output() spawns the secondary subprocess;
\* try_join! returns the first Err and drops the other future
SpawnLiveChat(ok) ==
    /\ pc = "spawn_live_chat"
    /\ IF ok
         THEN /\ live_chat' = Running
              /\ pc' = "join"
              /\ UNCHANGED <<video, dl_res, calls, tempdirs, destination,
                             videoErr, events, result, sleepLog, backoff_delay>>
         ELSE /\ live_chat' = SpawnFailed
              /\ video' = KillOnDrop(video)
              /\ DownloadReturns(Err(SpawnError))
    /\ UNCHANGED <<outside, iter, deadlinePassed, config, task, rclone,
                   replies>>

\* The primary subprocess exits.
ExitVideo(c, s) ==
    /\ video.st = "running"
    /\ video' = Exited(c, s)
    /\ UNCHANGED <<outside, pc, iter, backoff_delay, deadlinePassed, config,
                   task,
                   destination, tempdirs, live_chat, rclone, dl_res, videoErr, replies,
                   result, events, calls, sleepLog>>

\* The secondary subprocess exits (its stderr is only ever logged).
ExitLiveChat(c, s) ==
    /\ live_chat.st = "running"
    /\ live_chat' = Exited(c, s)
    /\ UNCHANGED <<outside, pc, iter, backoff_delay, deadlinePassed, config,
                   task,
                   destination, tempdirs, video, rclone, dl_res, videoErr, replies,
                   result, events, calls, sleepLog>>

\* try_join! completes with both outputs; download() returns
Join ==
    /\ pc = "join"
    /\ BothFinished(video, live_chat)
    /\ DownloadReturns(DownloadResult(video, live_chat))
    /\ UNCHANGED <<outside, iter, deadlinePassed, config, task, procs, replies>>

\* extract() returns: on success Uploading is sent and upload() starts
Extract(ok) ==
    /\ pc = "extract"
    /\ IF ok
         THEN /\ CanSend(subscriber)
              /\ events' = SendEvent(events, "Uploading")
              /\ calls' = Append(calls, Call("upload", task[1], destination))
              /\ pc' = "upload"
              /\ UNCHANGED <<tempdirs, destination, videoErr, result, sleepLog,
                             backoff_delay>>
         ELSE RunVideoErr(Context(Error("extract error"),
                                  "Could not extract metadata"))
    /\ UNCHANGED <<outside, iter, deadlinePassed, config, task, procs,
                   dl_res, replies>>

\* Rclone::upload: Command::output() spawns rclone; a spawn error is returned
SpawnRclone(ok) ==
    /\ pc = "upload"
    /\ rclone.st = "none"
    /\ IF ok
         THEN /\ rclone' = Running
              /\ UNCHANGED <<pc, calls, tempdirs, destination, videoErr, events,
                             result, sleepLog, backoff_delay>>
         ELSE /\ rclone' = SpawnFailed
              /\ RunVideoErr(Context(Error("io error"), "Could not upload video"))
    /\ UNCHANGED <<outside, iter, deadlinePassed, config, task, video,
                   live_chat,
                   dl_res, replies>>

\* The rclone subprocess exits.
ExitRclone(c) ==
    /\ rclone.st = "running"
    /\ rclone' = Exited(c, "")
    /\ UNCHANGED <<outside, pc, iter, backoff_delay, deadlinePassed, config,
                   task,
                   destination, tempdirs, video, live_chat, dl_res, videoErr,
                   replies, result, events, calls, sleepLog>>

\* upload() returns after rclone exited: on success archive() starts
Upload ==
    /\ pc = "upload"
    /\ rclone.st = "exited"
    /\ IF rclone.code = <<0>>
         THEN /\ calls' = Append(calls, Call("archive", task[1], 0))
              /\ pc' = "archive"
              /\ UNCHANGED <<tempdirs, destination, videoErr, events, result,
                             sleepLog, backoff_delay>>
         ELSE RunVideoErr(Context(RcloneExitError(rclone), "Could not upload video"))
    /\ UNCHANGED <<outside, iter, deadlinePassed, config, task, procs, dl_res,
                   replies>>

\* archive() returns: on success Idle is sent and run_video returns Ok
Archive(ok) ==
    /\ pc = "archive"
    /\ IF ok
         THEN /\ CanSend(subscriber)
              /\ events' = SendEvent(events, "Idle")
              /\ tempdirs' = DropTempDir(tempdirs, destination)
              /\ destination' = 0
              /\ RunOneOk
              /\ UNCHANGED <<videoErr, calls>>
         ELSE RunVideoErr(Context(Error("archive error"),
                                  "Could not add video to archive"))
    /\ UNCHANGED <<outside, iter, deadlinePassed, config, task, procs,
                   dl_res, replies>>

\* the requeue insert() returns; its result is discarded and run_one returns
Insert(r) ==
    /\ pc = "requeue"
    /\ insertRes' = <<r>>
    /\ RunOneErr(RunOneReturn(videoErr[1], r))
    /\ UNCHANGED <<outside, iter, deadlinePassed, config, task, destination,
                   tempdirs,
                   procs, dl_res, videoErr, calls, archivedRes>>

\* sleep(backoff_delay) returns: the delay is doubled and capped
Sleep ==
    /\ pc = "sleep"
    /\ backoff_delay' = NextDelay(backoff_delay)
    /\ pc' = AfterIteration
    /\ UNCHANGED <<outside, iter, deadlinePassed, config, task, destination,
                   tempdirs,
                   procs, dl_res, videoErr, replies, result, events, calls,
                   sleepLog>>

CancelDrops_exits(dirs, d) == dirs

\* select! drops the run_forever future: the TempDir local of run_video is
\* dropped with it
CancelDrops(dirs, d) == DropTempDir(dirs, d)

CtrlC_requeues ==
    /\ pc \notin {"returned", "cancelled"}
    /\ cancelledAt' = pc
    /\ pc' = "cancelled"
    /\ video' = KillOnDrop(video)
    /\ live_chat' = KillOnDrop(live_chat)
    /\ rclone' = Detach(rclone)
    /\ tempdirs' = CancelDrops(tempdirs, destination)
    /\ destination' = 0
    /\ boot' = "bye"
    /\ calls' = IF task # <<>> /\ pc \notin {"loop", "sleep", "requeue"}
                     /\ Requeues(skip_requeue)
                  THEN Append(calls, Call("insert", task[1], 0))
                  ELSE calls
    /\ UNCHANGED <<sink, constructed, iter, backoff_delay, deadlinePassed,
                   config, task, dl_res, videoErr, replies, result, events,
                   sleepLog>>

\* run(): ctrl_c() completes first in select!, the other futures are dropped
CtrlC ==
    /\ pc \notin {"returned", "cancelled"}
    /\ cancelledAt' = pc
    /\ pc' = "cancelled"
    /\ video' = KillOnDrop(video)
    /\ live_chat' = KillOnDrop(live_chat)
    /\ rclone' = Detach(rclone)
    /\ tempdirs' = CancelDrops(tempdirs, destination)
    /\ destination' = 0
    /\ boot' = "bye"
    /\ UNCHANGED <<sink, constructed, iter, backoff_delay, deadlinePassed,
                   config, task, dl_res, videoErr, replies, result, events,
                   calls, sleepLog>>

SelectArm_returnsOk == "bye"

\* run(): what the select! arm of run_forever does: `=> unreachable!()`
SelectArm == "panicked"

\* run(): run_forever() completes first in select! (its deadline has passed)
RunForeverReturns ==
    /\ pc = "returned"
    /\ boot = "running"
    /\ boot' = SelectArm
    /\ UNCHANGED <<bot, sink, constructed>>

Next ==
    \/ Tick
    \/ GetNextTask
    \/ \E r \in VideoIds \cup {"err"} : Consume(r)
    \/ \E r \in {"true", "false", "err"} : IsArchived(r)
    \/ \E ok \in BOOLEAN : TempDir(ok)
    \/ \E c \in ExitCodes, s \in Stderrs :
          OtherDownload(VideoDownloadResult(Output(c, s)))
    \/ OtherDownload(Err(Error("downloader error")))
    \/ \E ok \in BOOLEAN : SpawnVideo(ok)
    \/ \E ok \in BOOLEAN : SpawnLiveChat(ok)
    \/ \E c \in ExitCodes, s \in Stderrs : ExitVideo(c, s)
    \/ \E c \in ExitCodes : ExitLiveChat(c, "")
    \/ Join
    \/ \E ok \in BOOLEAN : Extract(ok)
    \/ \E ok \in BOOLEAN : SpawnRclone(ok)
    \/ \E c \in ExitCodes : ExitRclone(c)
    \/ Upload
    \/ \E ok \in BOOLEAN : Archive(ok)
    \/ \E r \in {"ok", "err"} : Insert(r)
    \/ Sleep
    \/ CtrlC
    \/ RunForeverReturns

Spec == Init /\ [][Next]_vars

\* ------------------------------------------- actions of the metrics sink
\* events.send(state): the event is queued on the unbounded channel
Publish(s) ==
    /\ published < MaxEvents
    /\ published' = published + 1
    /\ chan' = Append(chan, s)
    /\ UNCHANGED <<worker, state, lpc, new_state, applied, reqs, snapshot>>

Recv_takesNewest ==
    /\ lpc = "recv"
    /\ chan # <<>>
    /\ new_state' = <<chan[Len(chan)]>>
    /\ chan' = SubSeq(chan, 1, Len(chan) - 1)
    /\ lpc' = "write"
    /\ UNCHANGED <<worker, published, state, applied, reqs, snapshot>>

\* rx_listener: rx.recv() returns the oldest event, state.write() is awaited
Recv ==
    /\ lpc = "recv"
    /\ chan # <<>>
    /\ new_state' = <<Head(chan)>>
    /\ chan' = Tail(chan)
    /\ lpc' = "write"
    /\ UNCHANGED <<worker, published, state, applied, reqs, snapshot>>

\* rx_listener: the write guard is granted once no read guard is held;
\* *state_guard = new_state
WriteState ==
    /\ lpc = "write"
    /\ reqs = <<>>
    /\ state' = new_state[1]
    /\ new_state' = <<>>
    /\ applied' = applied + 1
    /\ lpc' = "recv"
    /\ UNCHANGED <<worker, chan, published, reqs, snapshot>>

\* generate_metrics: state.read() is granted (the lock is fair: not while a
\* writer waits) and the state lines are formatted
Request ==
    /\ Len(reqs) < MaxRequests
    /\ lpc # "write"
    /\ reqs' = Append(reqs, StateMetrics(state))
    /\ UNCHANGED <<worker, chan, published, state, lpc, new_state, applied,
                   snapshot>>

\* generate_metrics: the directory size is computed, the response is
\* returned and the read guard dropped
Respond(i) ==
    /\ i \in 1..Len(reqs)
    /\ snapshot' = reqs[i]
    /\ reqs' = SubSeq(reqs, 1, i - 1) \o SubSeq(reqs, i + 1, Len(reqs))
    /\ UNCHANGED <<worker, chan, published, state, lpc, new_state, applied>>

SinkNext ==
    \/ \E s \in ArchiverState : Publish(s)
    \/ Recv
    \/ WriteState
    \/ Request
    \/ \E i \in 1..MaxRequests : Respond(i)

SinkInit ==
    /\ Init
    /\ ~deadlinePassed
    /\ skip_requeue = ""
    /\ video_downloader = "YTDL"
    /\ subscriber = "live"

SinkSpec == SinkInit /\ [][SinkNext]_vars

\* The runtime polls rx_listener whenever it can make progress, the lock
\* grants a waiting writer once the readers are gone, and every request in
\* generate_metrics finishes.
SinkLiveSpec ==
    /\ SinkSpec
    /\ WF_vars(Recv)
    /\ WF_vars(WriteState)
    /\ WF_vars(\E i \in 1..MaxRequests : Respond(i))

\* -------------------------------------- actions of run() before select!
\* YTDL::new up to the decision to install: the directories are created and
\* is_installed() probes the cache directory
YtdlNew(dirsOk) ==
    /\ boot = "modules"
    /\ ypc = "new"
    /\ IF ~dirsOk
         THEN /\ yres' = Err(Context(Error("io error"),
                                     "Could not create cache directory"))
              /\ ypc' = "done"
              /\ UNCHANGED yinst
         ELSE /\ yinst' = <<YtdlIsInstalled(files)>>
              /\ IF NeedsInstall(YtdlIsInstalled(files))
                   THEN ypc' = "install" /\ UNCHANGED yres
                   ELSE ypc' = "done" /\ yres' = Ok
    /\ UNCHANGED <<bot, sink, boot, boots, arch, files, runErr, rpc, rinst, rres>>

\* YTDL::install: the architecture is matched, the four install_binary calls
\* are joined, YTDL::new returns
YtdlInstall(outs) ==
    /\ boot = "modules"
    /\ ypc = "install"
    /\ IF ~SupportedArch(arch)
         THEN /\ yres' = Err(Context(Error("Unsupported architecture"),
                                     "Could not install yt-dlp and ffmpeg"))
              /\ UNCHANGED files
         ELSE /\ files' = [f \in CacheFiles |->
                             IF f \in DOMAIN outs
                               THEN InstallBinary(files[f], outs[f])
                               ELSE files[f]]
              /\ yres' = WithContext(YtdlInstallResult(outs),
                                     "Could not install yt-dlp and ffmpeg")
    /\ ypc' = "done"
    /\ UNCHANGED <<bot, sink, boot, boots, arch, runErr, yinst, rpc, rinst, rres>>

\* Rclone::new up to the decision to install: the config file is written
\* and is_installed() probes the cache directory
RcloneNew(confOk) ==
    /\ boot = "modules"
    /\ rpc = "new"
    /\ IF ~confOk
         THEN /\ rres' = Err(Context(Error("io error"),
                                     "Could not create rclone config file"))
              /\ rpc' = "done"
              /\ UNCHANGED <<files, rinst>>
         ELSE /\ files' = [files EXCEPT !["rclone.conf"] = "data"]
              /\ rinst' = <<RcloneIsInstalled(files)>>
              /\ IF NeedsInstall(RcloneIsInstalled(files))
                   THEN rpc' = "install" /\ UNCHANGED rres
                   ELSE rpc' = "done" /\ rres' = Ok
    /\ UNCHANGED <<bot, sink, boot, boots, arch, runErr, ypc, yinst, yres>>

\* Rclone::install: the destination file is created (truncated) first, then
\* the release is looked up, fetched and unpacked; Rclone::new returns
RcloneInstall(created, out) ==
    /\ boot = "modules"
    /\ rpc = "install"
    /\ IF ~created
         THEN /\ rres' = Err(Context(Context(Error("io error"),
                                             "Could not create destination file"),
                                     "Could not install rclone"))
              /\ UNCHANGED files
         ELSE LET r == RcloneInstallResult(arch, out)
              IN  /\ files' = [files EXCEPT !["rclone"] = IF IsOk(r) THEN out ELSE "empty"]
                  /\ rres' = WithContext(r, "Could not install rclone")
    /\ rpc' = "done"
    /\ UNCHANGED <<bot, sink, boot, boots, arch, runErr, ypc, yinst, yres, rinst>>

\* run(): tokio::join! is ready; an Err of a constructor is returned with `?`
\* (main returns it: the process exits), otherwise select! is entered
ModulesJoined ==
    /\ boot = "modules"
    /\ ypc = "done"
    /\ rpc = "done"
    /\ LET r == ModulesResult(yres, rres)
       IN  IF IsErr(r)
             THEN boot' = "failed" /\ runErr' = <<r[2]>>
             ELSE boot' = "running" /\ UNCHANGED runErr
    /\ UNCHANGED <<bot, sink, boots, arch, files, ypc, yinst, yres, rpc, rinst, rres>>

\* The process is started again on the same cache directory.
Restart ==
    /\ boot \in {"running", "failed"}
    /\ boots < MaxBoots
    /\ boots' = boots + 1
    /\ boot' = "modules"
    /\ runErr' = <<>>
    /\ ypc' = "new" /\ yinst' = <<>> /\ yres' = <<>>
    /\ rpc' = "new" /\ rinst' = <<>> /\ rres' = <<>>
    /\ UNCHANGED <<bot, sink, arch, files>>

InstallNext ==
    \/ \E ok \in BOOLEAN : YtdlNew(ok)
    \/ \E outs \in {o \in [{YtdlBinaries[i] : i \in 1..Len(YtdlBinaries)} ->
                            {"neterr", "ioerr", "data", "v2"}] :
                      \A b \in DOMAIN o : o[b] \in InstallOutcomes(b)} :
          YtdlInstall(outs)
    \/ \E ok \in BOOLEAN : RcloneNew(ok)
    \/ \E created \in BOOLEAN, out \in RcloneOutcomes : RcloneInstall(created, out)
    \/ ModulesJoined
    \/ Restart

\* main() starts: run() is at tokio::join!, nothing was constructed yet
InstallInit ==
    /\ BotInit
    /\ ~deadlinePassed
    /\ skip_requeue = ""
    /\ video_downloader = "YTDL"
    /\ subscriber = "live"
    /\ boot = "modules"
    /\ boots = 1
    /\ arch \in Archs
    /\ files \in InitialCaches
    /\ runErr = <<>>
    /\ ypc = "new" /\ yinst = <<>> /\ yres = <<>>
    /\ rpc = "new" /\ rinst = <<>> /\ rres = <<>>

InstallSpec == InstallInit /\ [][InstallNext]_vars

\* ---------------------------------------------------------------- claims
Returned == result # <<>>
Sent(ev) == \E i \in 1..Len(events) : events[i] = ev

\* C1: when the catalog reports the task's payload as already archived,
\* run_one returns Ok, the downloader, the extractor, the uploader and the
\* catalog's archive are never called, and neither Downloading nor
\* Uploading is sent.
C1_AlreadyArchivedShortCircuits ==
    archivedRes = <<"true">> =>
        /\ result = Ok
        /\ \A op \in {"tempdir", "download", "extract", "upload", "archive", "insert"} :
              CallsOf(op) = {}
        /\ ~Sent("Downloading")
        /\ ~Sent("Uploading")
        /\ video.st = "none" /\ live_chat.st = "none"

C1_Witness ==
    /\ archivedRes = <<"true">>
    /\ result = Ok
    /\ task = <<"abc123">>

\* C2: once run_one has returned, with Ok or with the error of any stage,
\* no working directory is left on disk.
C2_NoLeakedWorkdir == Returned => (tempdirs = {} /\ destination = 0)

C2_Witness ==
    /\ IsErr(result)
    /\ CallsOf("archive") # {}
    /\ tempdirs = {}

\* C3: within a streak of consecutive failed run_one calls the delay slept
\* never decreases, and the first failure after a successful run_one (and the
\* very first failure) sleeps exactly the base delay of 30 seconds.
C3_BackoffMonotoneAndReset ==
    \A i \in 1..Len(sleepLog) :
        sleepLog[i] # 0 =>
            IF i = 1 \/ sleepLog[i - 1] = 0
              THEN sleepLog[i] = 30
              ELSE sleepLog[i] >= sleepLog[i - 1]

C3_Witness ==
    /\ Len(sleepLog) >= 7
    /\ sleepLog[4] = 240
    /\ sleepLog[5] = 300
    /\ sleepLog[6] = 0
    /\ sleepLog[7] = 30

\* C4: a run_one that went through download, extraction, upload and
\* registration and returned Ok has sent exactly Starting, Downloading,
\* Uploading, Idle, in this order.
C4_SuccessEventOrder ==
    (subscriber = "live" /\ result = Ok /\ CallsOf("archive") # {}) =>
        events = <<"Starting", "Downloading", "Uploading", "Idle">>

C4_Witness ==
    /\ result = Ok
    /\ CallsOf("archive") # {}
    /\ Len(events) = 4

\* C5: an iteration whose run_one failed before download() was reached
\* (dequeue, catalog check or working directory failure) has sent exactly
\* Starting, FailureBackoff.
C5_EarlyFailureEventOrder ==
    (subscriber = "live" /\ IsErr(result) /\ CallsOf("download") = {}) =>
        events = <<"Starting", "FailureBackoff">>

C5_Witness ==
    /\ IsErr(result)
    /\ CallsOf("tempdir") # {}
    /\ CallsOf("download") = {}
    /\ pc = "loop"

\* C6: with YTDL, when both subprocesses ran, the primary exited 0 and the
\* secondary exited non-zero, download() returns Ok with the primary's
\* output, the run goes on to extraction, and a run that returns Ok has
\* made exactly one archive call, for the task's payload.
C6_Precondition ==
    /\ video_downloader = "YTDL"
    /\ video.st = "exited" /\ video.code = <<0>>
    /\ live_chat.st = "exited" /\ live_chat.code # <<0>>
    /\ dl_res # <<>>

C6_SecondaryExitIgnored ==
    C6_Precondition =>
        /\ dl_res = VideoDownloadResult(Output(0, video.stderr[1]))
        /\ CallsOf("extract") # {}
        /\ IsErr(result) => videoErr[1].ctx[1] # "Could not download video"
        /\ result = Ok =>
              /\ Cardinality(CallsOf("archive")) = 1
              /\ \A i \in CallsOf("archive") : calls[i].id = task[1]

C6_Witness ==
    /\ C6_Precondition
    /\ result = Ok
    /\ live_chat.code = <<1>>
    /\ task = <<"abc123">>

\* C7: with YTDL, when the primary started and exited 0 and the secondary
\* could not be spawned, download() returns Ok.
C7_SecondarySpawnFailureIgnored ==
    (/\ video_downloader = "YTDL"
     /\ video.st = "exited" /\ video.code = <<0>>
     /\ live_chat.st = "spawn_failed"
     /\ dl_res # <<>>) => IsOk(dl_res)

\* C8: with YTDL, when both subprocesses ran and the primary exited with a
\* non-zero code c, the error run_one returns carries c and the primary's
\* captured stderr.
C8_ErrorCarriesCodeAndStderr ==
    (/\ video_downloader = "YTDL"
     /\ video.st = "exited" /\ video.code # <<0>>
     /\ live_chat.st = "exited"
     /\ IsErr(result)) =>
        /\ result[2].code = video.code
        /\ result[2].stderr = video.stderr

\* C9: insert is called only after run_video failed; a returned run_one has
\* called insert exactly once, with the task's payload, when skip_requeue is
\* non-empty and run_video failed, and has not called it otherwise.
C9_RequeueExactlyOnce ==
    LET ins == CallsOf("insert") IN
    /\ ins # {} => videoErr # <<>>
    /\ Returned =>
          IF skip_requeue # "" /\ IsErr(result) /\ task # <<>>
            THEN /\ Cardinality(ins) = 1
                 /\ \A i \in ins : calls[i].id = task[1]
            ELSE ins = {}

C9_Witness ==
    /\ IsErr(result)
    /\ skip_requeue # ""
    /\ CallsOf("insert") # {}
    /\ CallsOf("upload") # {}

\* C10: when the requeue insert fails, run_one returns the error run_video
\* returned.
C10_InsertFailureDoesNotMask ==
    insertRes = <<"err">> => result = Err(videoErr[1])

C10_Witness ==
    /\ insertRes = <<"err">>
    /\ IsErr(result)
    /\ CallsOf("download") # {}

\* C11: download() is called, and a yt-dlp subprocess exists, only after
\* is_archived() was called for the same payload and answered false.
C11_CheckBeforeDownload ==
    /\ CallsOf("download") # {} =>
          /\ archivedRes = <<"false">>
          /\ \A j \in CallsOf("download") :
                \E i \in CallsOf("is_archived") :
                    i < j /\ calls[i].id = calls[j].id
    /\ (video.st # "none" \/ live_chat.st # "none") => archivedRes = <<"false">>

C11_Witness ==
    /\ CallsOf("download") # {}
    /\ video.st = "running"
    /\ archivedRes = <<"false">>

\* C12: the delay starts at 30 and stays within [30, 300]; the k-th
\* consecutive failure sleeps min(30 * 2^(k-1), 300); a failed run_one sends
\* FailureBackoff exactly once, as its last event, sleeps the current delay
\* and then sets the delay to min(2 * delay, 300); a successful run_one
\* sends no FailureBackoff, does not sleep and leaves the delay at 30.
RECURSIVE Pow2(_)
Pow2(n) == IF n = 0 THEN 1 ELSE 2 * Pow2(n - 1)
Min(a, b) == IF a < b THEN a ELSE b
\* position of the i-th finished run_one in its streak of failures
StreakPos(i) ==
    LET oks == {j \in 1..(i - 1) : sleepLog[j] = 0}
        lastOk == IF oks = {} THEN 0 ELSE CHOOSE j \in oks : \A k \in oks : k <= j
    IN  i - lastOk
Sleeping == pc = "sleep" \/ (pc = "cancelled" /\ cancelledAt = "sleep")

C12_BackoffSchedule ==
    /\ backoff_delay >= 30 /\ backoff_delay <= 300
    /\ iter = 0 => backoff_delay = 30
    /\ \A i \in 1..Len(sleepLog) :
          sleepLog[i] # 0 => sleepLog[i] = Min(30 * Pow2(StreakPos(i) - 1), 300)
    /\ result = Ok =>
          /\ ~Sleeping
          /\ backoff_delay = 30
          /\ ~Sent("FailureBackoff")
          /\ sleepLog[Len(sleepLog)] = 0
    /\ IsErr(result) =>
          /\ backoff_delay = IF Sleeping
                               THEN sleepLog[Len(sleepLog)]
                               ELSE Min(2 * sleepLog[Len(sleepLog)], 300)
          /\ subscriber = "live" =>
                /\ events[Len(events)] = "FailureBackoff"
                /\ Cardinality({i \in 1..Len(events) :
                                   events[i] = "FailureBackoff"}) = 1

C12_Witness ==
    /\ Len(sleepLog) = 6
    /\ sleepLog[4] = 240
    /\ sleepLog[5] = 300
    /\ sleepLog[6] = 300
    /\ pc = "loop"
    /\ backoff_delay = 300

\* C13: run_forever returns only in the step that ends an iteration (the
\* return of a successful run_one, or the end of the backoff sleep of a
\* failed one), so after at least one complete iteration; and the step that
\* ends an iteration returns exactly when the deadline has passed.
C13_Step ==
    LET finishes == /\ pc \notin {"loop", "returned", "cancelled"}
                    /\ pc' \in {"loop", "returned"}
    IN  /\ (pc' = "returned" /\ pc # "returned") =>
              /\ finishes
              /\ iter' >= 1
              /\ Len(sleepLog') = iter'
              /\ result' # <<>>
              /\ IsErr(result') => pc = "sleep"
              /\ tempdirs' = {}
        /\ finishes => (pc' = "returned" <=> deadlinePassed)

C13_DeadlineCheckedAtEnd == [][C13_Step]_vars

C13_Witness ==
    /\ pc = "returned"
    /\ iter = 1
    /\ IsErr(result)

\* The sleep of the backoff is finite and the worker task is scheduled again.
LiveInit == Init /\ subscriber = "live"
LiveSpec == LiveInit /\ [][Next]_vars /\ WF_vars(Sleep) /\ WF_vars(GetNextTask)

\* C14: after a failed run_one (the worker is in its backoff sleep) the loop
\* calls run_one again, unless the deadline passes or the process is shut
\* down in between.
C14_LoopContinuesAfterFailure ==
    (pc = "sleep" /\ iter < MaxIter) ~>
        (pc = "consume" \/ deadlinePassed \/ pc = "cancelled")

C14_Witness ==
    /\ pc = "consume"
    /\ iter = 3
    /\ sleepLog = <<30, 60>>
    /\ ~deadlinePassed

\* C15: consume() is called only when the previous run_one has returned:
\* no collaborator call of the previous task is outstanding, its working
\* directory is gone and none of its subprocesses is running.
C15_Step ==
    iter' = iter + 1 =>
        /\ pc = "loop"
        /\ iter = 0 \/ result # <<>>
        /\ CallsOf("insert") # {} => insertRes # <<>>
        /\ tempdirs = {} /\ destination = 0
        /\ video.st # "running" /\ live_chat.st # "running" /\ rclone.st # "running"

C15_OneTaskAtATime == [][C15_Step]_vars

C15_Witness ==
    /\ pc = "consume"
    /\ iter = 2
    /\ sleepLog = <<30>>

\* C16: when run_forever is dropped while the two yt-dlp subprocesses are
\* being spawned or waited for, neither of them keeps running.
C16_FetchKilledOnCancel ==
    (pc = "cancelled" /\ cancelledAt \in {"spawn_live_chat", "join"}) =>
        (video.st # "running" /\ live_chat.st # "running")

C16_Witness ==
    /\ pc = "cancelled"
    /\ cancelledAt = "join"
    /\ video.st = "killed"
    /\ live_chat.st = "killed"

\* C17: after the shutdown signal no subprocess of the current task keeps
\* running, the rclone subprocess of the Uploading stage included.
C17_AllSubprocessesKilled ==
    pc = "cancelled" =>
        (video.st # "running" /\ live_chat.st # "running" /\ rclone.st # "running")

\* C18: after the shutdown signal dropped the pipeline, at whatever stage,
\* no working directory is left.
C18_WorkdirRemovedOnCancel == pc = "cancelled" => (tempdirs = {} /\ destination = 0)

C18_Witness ==
    /\ pc = "cancelled"
    /\ cancelledAt = "upload"
    /\ CallsOf("upload") # {}
    /\ tempdirs = {}

\* C19: whatever the subscriber is (none, a dropped receiver, a receiver
\* that has not read anything), every step of the worker that publishes a
\* state event can be taken as soon as the call it waited for has returned:
\* send_event neither waits for the receiver nor stops the pipeline.
C19_PublishNeverBlocks ==
    /\ (pc = "loop" /\ iter < MaxIter) => ENABLED GetNextTask
    /\ pc = "consume" => ENABLED Consume("err")
    /\ pc = "tempdir" => ENABLED TempDir(TRUE)
    /\ pc = "extract" => ENABLED Extract(TRUE)
    /\ pc = "archive" => (ENABLED Archive(TRUE) /\ ENABLED Archive(FALSE))
    /\ pc = "requeue" => ENABLED Insert("err")

C19_Witness ==
    /\ subscriber = "closed"
    /\ result = Ok
    /\ CallsOf("archive") # {}
    /\ events = <<>>
    /\ pc = "loop"

\* C20: every snapshot reports each of the five states once, with value 0
\* or 1, and exactly one of them with value 1; as long as the listener has
\* applied no event, the state reported with 1 is Idle.
Snapshots ==
    {reqs[i] : i \in 1..Len(reqs)} \cup (IF snapshot = <<>> THEN {} ELSE {snapshot})
Current(m) == {m[i][1] : i \in {j \in 1..Len(m) : m[j][2] = 1}}

C20_ExactlyOneCurrentState ==
    \A m \in Snapshots :
        /\ Len(m) = 5
        /\ {m[i][1] : i \in 1..Len(m)} = ArchiverState
        /\ \A i \in 1..Len(m) : m[i][2] \in {0, 1}
        /\ Cardinality({i \in 1..Len(m) : m[i][2] = 1}) = 1
        /\ applied = 0 => Current(m) = {"Idle"}

C20_Witness ==
    /\ snapshot # <<>>
    /\ Current(snapshot) = {"FailureBackoff"}
    /\ applied = 2

\* C21: an event the listener has received while a metrics request is still
\* computing the directory size can be written to the state at once: the
\* write guard does not have to wait for that request to finish.
C21_WriteNotStalledBySnapshot ==
    (lpc = "write" /\ reqs # <<>>) => ENABLED WriteState

\* C22: when installing a dependency has failed (network or filesystem
\* error, unsupported architecture), the process has not terminated: run()
\* did not return the error.
InstallFailed ==
    \/ IsErr(yres) /\ yres[2].ctx[1] = "Could not install yt-dlp and ffmpeg"
    \/ IsErr(rres) /\ rres[2].ctx[1] = "Could not install rclone"

C22_InstallFailureNotFatal == InstallFailed => (boot # "failed" /\ runErr = <<>>)

\* C23: while a tool's probe succeeds on the cache directory, no step of
\* YTDL::new or Rclone::new, in this or in any later start of the process,
\* starts an install or changes a binary of that tool.
C23_Step ==
    /\ YtdlIsInstalled(files) =>
          /\ ypc' # "install"
          /\ \A i \in 1..Len(YtdlBinaries) :
                files'[YtdlBinaries[i]] = files[YtdlBinaries[i]]
    /\ RcloneIsInstalled(files) =>
          /\ rpc' # "install"
          /\ files'["rclone"] = files["rclone"]

C23_EnsureInstalledIdempotent == [][C23_Step]_vars

C23_Witness ==
    /\ boots = 2
    /\ boot = "running"
    /\ yinst = <<TRUE>>
    /\ rinst = <<TRUE>>
    /\ files["yt-dlp"] = "v2"
    /\ files["ffmpeg"] = "v2"
    /\ files["rclone"] = "v2"

\* C24: whenever YTDL::new or Rclone::new has returned Ok, is_installed() of
\* that client is true.
C24_OkImpliesInstalled ==
    /\ yres = Ok => YtdlIsInstalled(files)
    /\ rres = Ok => RcloneIsInstalled(files)

\* C25 as stated: every task consume handed out has, when its run_one
\* returns, been found already archived, been registered in the catalog, or
\* been handed back to the queue by an insert call.
Attempted == Returned /\ task # <<>>
Settled ==
    \/ archivedRes = <<"true">>
    \/ result = Ok /\ CallsOf("archive") # {}
    \/ \E i \in CallsOf("insert") : calls[i].id = task[1]

Finished(p) == p.st \in {"exited", "spawn_failed"}

C26_ReturnsAfterBothFinished ==
    (video_downloader = "YTDL" /\ dl_res # <<>>) =>
        (Finished(video) /\ Finished(live_chat))

\* C27: the stages of one run are called in the order download, extract,
\* upload, archive, each at most once and only after the one before it
\* succeeded (download: Ok with exit status 0); after the failure of a stage
\* no later stage is called.
Stages == <<"download", "extract", "upload", "archive">>
FailedStage ==
    IF videoErr = <<>> THEN 0
    ELSE IF videoErr[1].ctx = <<>>
      THEN (IF IsOk(dl_res) /\ videoErr[1] = StatusError(dl_res[2]) THEN 1 ELSE 0)
    ELSE CASE videoErr[1].ctx[1] = "Could not download video" -> 1
           [] videoErr[1].ctx[1] = "Could not extract metadata" -> 2
           [] videoErr[1].ctx[1] = "Could not upload video" -> 3
           [] videoErr[1].ctx[1] = "Could not add video to archive" -> 4
           [] OTHER -> 0

C27_StagesGated ==
    /\ \A k \in 1..Len(Stages) : Cardinality(CallsOf(Stages[k])) <= 1
    /\ \A k \in 2..Len(Stages) :
          \A j \in CallsOf(Stages[k]) :
              \E i \in CallsOf(Stages[k - 1]) : i < j
    /\ CallsOf("extract") # {} => (IsOk(dl_res) /\ dl_res[2].code = 0)
    /\ CallsOf("archive") # {} => (rclone.st = "exited" /\ rclone.code = <<0>>)
    /\ \A k \in 1..Len(Stages) :
          FailedStage = k =>
              \A m \in (k + 1)..Len(Stages) : CallsOf(Stages[m]) = {}
    /\ (dl_res # <<>> /\ (IsErr(dl_res) \/ dl_res[2].code # 0)) => FailedStage = 1

C27_Witness ==
    /\ Returned
    /\ IsOk(dl_res)
    /\ dl_res[2].code = 2
    /\ FailedStage = 1
    /\ CallsOf("download") # {}
    /\ CallsOf("extract") = {}

\* C28: while download, extract, upload or archive is in progress the
\* working directory run_video created exists, and the download, extract
\* and upload calls of the run were all given that directory.
InStage ==
    pc \in {"download", "spawn_video", "spawn_live_chat", "join", "extract",
            "upload", "archive"}

C28_WorkdirLivesThroughStages ==
    /\ InStage => (destination # 0 /\ destination \in tempdirs)
    /\ \A op \in {"download", "extract", "upload"} :
          \A i \in CallsOf(op) :
              /\ calls[i].dir = iter
              /\ InStage => calls[i].dir = destination

C28_Witness ==
    /\ pc = "archive"
    /\ destination \in tempdirs
    /\ \A op \in {"download", "extract", "upload"} :
          \E i \in CallsOf(op) : calls[i].dir = destination

\* C29: a run_one whose consume() failed returns the error, has sent only
\* Starting before it, has called no other collaborator and created no
\* working directory; run_forever then sends FailureBackoff and sleeps the
\* current delay, as after any other failure.
DequeueFailed == Returned /\ task = <<>>

C29_DequeueFailure ==
    DequeueFailed =>
        /\ IsErr(result)
        /\ result[2].ctx = <<"Could not get next task from queue">>
        /\ calls = <<Call("consume", "", 0)>>
        /\ tempdirs = {} /\ destination = 0
        /\ video.st = "none" /\ live_chat.st = "none" /\ rclone.st = "none"
        /\ subscriber = "live" => events = <<"Starting", "FailureBackoff">>
        /\ Len(sleepLog) = iter
        /\ sleepLog[iter] >= BaseDelay
        /\ (iter > 1 /\ sleepLog[iter - 1] # 0) =>
              sleepLog[iter] = NextDelay(sleepLog[iter - 1])

C29_Witness ==
    /\ DequeueFailed
    /\ iter = 3
    /\ sleepLog = <<30, 60, 120>>
    /\ pc = "sleep"

\* C30: run_one has returned Ok only if the task was already archived or
\* every stage succeeded (download with exit status 0); when consume() or
\* run_video failed, run_one has returned an error.
AllStagesSucceeded ==
    /\ archivedRes = <<"false">>
    /\ videoErr = <<>>
    /\ \A op \in {"consume", "is_archived", "tempdir", "download", "extract",
                  "upload", "archive"} : Cardinality(CallsOf(op)) = 1
    /\ IsOk(dl_res) /\ dl_res[2].code = 0
    /\ rclone.st = "exited" /\ rclone.code = <<0>>

C30_OkOnlyIfAllSucceeded ==
    Returned =>
        /\ result = Ok =>
              /\ task # <<>>
              /\ archivedRes = <<"true">> \/ AllStagesSucceeded
        /\ (task = <<>> \/ videoErr # <<>>) => IsErr(result)
        /\ (dl_res # <<>> /\ (IsErr(dl_res) \/ dl_res[2].code # 0)) => IsErr(result)
        /\ (rclone.st = "spawn_failed" \/ (rclone.st = "exited" /\ rclone.code # <<0>>))
              => IsErr(result)
        /\ archivedRes = <<"err">> => IsErr(result)

C30_Witness ==
    /\ result = Ok
    /\ AllStagesSucceeded
    /\ video_downloader = "YTDL"
    /\ live_chat.code = <<2>>

\* C31: every error run_one returns names the stage that failed, through a
\* context (or, for the exit status of the download, a message) the
\* pipeline itself added.
PipelineContexts ==
    {"Could not get next task from queue",
     "Could not create temporary directory", "Could not download video",
     "Could not extract metadata", "Could not upload video",
     "Could not add video to archive"}

C31_ErrorsTaggedWithStage ==
    IsErr(result) =>
        \/ result[2].ctx # <<>> /\ result[2].ctx[1] \in PipelineContexts
        \/ result[2].msg = "Could not download video: downloader exited with code"

\* C32: whenever run_one has returned Ok, the last state event it sent is
\* Idle.
C32_IdleAfterSuccess ==
    (subscriber = "live" /\ result = Ok) =>
        (events # <<>> /\ events[Len(events)] = "Idle")

\* C33: the listener applies the events in the order they were sent (the
\* state only ever becomes the oldest event not yet applied), and when no
\* further event is sent the state eventually equals the last one sent.
Pending == new_state \o chan

C33_OrderStep ==
    \/ Pending' = Pending /\ state' = state
    \/ \E s \in ArchiverState : Pending' = Append(Pending, s) /\ state' = state
    \/ Pending # <<>> /\ Pending' = Tail(Pending) /\ state' = Head(Pending)

C33_AppliedInOrderAndConverges ==
    /\ [][C33_OrderStep]_vars
    /\ \A n \in 0..(MaxEvents + 1), v \in ArchiverState :
          (published = n /\ Pending # <<>> /\ Pending[Len(Pending)] = v)
              ~> ((Pending = <<>> /\ state = v) \/ published > n)

C33_Witness ==
    /\ applied = 3
    /\ Pending = <<>>
    /\ state = "Uploading"
    /\ snapshot # <<>>
    /\ Current(snapshot) = {"Downloading"}

\* C34: after YTDL::new has returned Ok, yt-dlp, ffmpeg, the PO-token
\* plugin and deno are all present in the cache directory.
C34_AllToolsPresent ==
    yres = Ok => \A i \in 1..Len(YtdlBinaries) : Exists(files[YtdlBinaries[i]])

\* C35: when run_forever has returned because its deadline passed, run()
\* shuts down cleanly: it is still in select! or has returned Ok.
C35_DeadlineReturnIsCleanShutdown == pc = "returned" => boot \in {"running", "bye"}

\* C36: over the whole of run_forever, two successive state events are one
\* of the nine listed pairs; every run starts with Starting, Uploading is
\* sent only after Downloading and Idle only after Uploading in the same run.
EventPairs ==
    {<<"Starting", "Downloading">>, <<"Starting", "FailureBackoff">>,
     <<"Starting", "Starting">>, <<"Downloading", "Uploading">>,
     <<"Downloading", "FailureBackoff">>, <<"Uploading", "Idle">>,
     <<"Uploading", "FailureBackoff">>, <<"Idle", "Starting">>,
     <<"FailureBackoff", "Starting">>}
Before(evs, a, b) ==
    \A j \in 1..Len(evs) : evs[j] = b => \E i \in 1..(j - 1) : evs[i] = a

C36_Step ==
    /\ (subscriber = "live" /\ iter' # iter) =>
          /\ events' = <<"Starting">>
          /\ events # <<>> => <<events[Len(events)], "Starting">> \in EventPairs
    /\ (iter' = iter /\ events' # events) =>
          /\ Len(events') = Len(events) + 1
          /\ SubSeq(events', 1, Len(events)) = events
          /\ events # <<>>
          /\ <<events[Len(events)], events'[Len(events')]>> \in EventPairs
    /\ events' # <<>> => events'[1] = "Starting"
    /\ Before(events', "Downloading", "Uploading")
    /\ Before(events', "Uploading", "Idle")

C36_EventPairs == [][C36_Step]_vars

C36_Witness ==
    /\ iter = 3
    /\ sleepLog = <<30, 0, 30>>
    /\ pc = "sleep"
    /\ events = <<"Starting", "Downloading", "Uploading", "FailureBackoff">>

\* C37: when the shutdown signal dropped the run while a dequeued task was
\* being processed, no insert was issued for that task; insert is only ever
\* called after run_video returned an error.
MidFlight ==
    {"is_archived", "tempdir", "download", "spawn_video", "spawn_live_chat",
     "join", "extract", "upload", "archive"}

C37_NoRequeueOnCancel ==
    /\ (pc = "cancelled" /\ cancelledAt \in MidFlight) => CallsOf("insert") = {}
    /\ CallsOf("insert") # {} => videoErr # <<>>

C37_Witness ==
    /\ pc = "cancelled"
    /\ cancelledAt = "extract"
    /\ skip_requeue # ""
    /\ task = <<"abc123">>
    /\ CallsOf("insert") = {}

\* C38: whenever is_installed accepts a tool, none of the files it checks
\* for that tool is one an install left incomplete (created or truncated,
\* payload not written).
Incomplete(f) == f = "empty"

C38_IncompleteNeverAccepted ==
    /\ YtdlIsInstalled(files) =>
          \A f \in {"yt-dlp", "ffmpeg", "yt-dlp-get-pot.zip"} : ~Incomplete(files[f])
    /\ RcloneIsInstalled(files) => ~Incomplete(files["rclone"])

====
